---- MODULE Spec2Model ----
(***************************************************************************)
(* A model of qplan's entity.py: the Slot interval algebra (Slot.__init__, *)
(* Slot.split, Slot.size) and a pool of slots; the rise/set based          *)
(* Observer.observable and the sampling Observer.observable2;              *)
(* StaticTarget.calc_airmass; and StaticTarget.calc called by two workers. *)
(*                                                                         *)
(* Time.  Instants are integers counted in ticks; TicksPerSec ticks make   *)
(* one second, so that the sub-second instants a datetime can hold exist   *)
(* in the model and the strict comparisons of the code (< 5.0, > 1.0) can  *)
(* be told from the non-strict ones.  A timedelta is a number of ticks.    *)
(*                                                                         *)
(* Sky.  pyephem is outside the repository.  It is modelled by a target    *)
(* whose altitude is a triangle wave of period Day: it culminates at       *)
(* altitude peak and loses slope degrees per step away from culmination,   *)
(* a step of the wave lasting res ticks.                                   *)
(* Its horizon-crossing searches are exact on that wave, but for the       *)
(* boundary artefact observable guards against: when the target comes up   *)
(* within a tick of the start of the search, next_rising may hand back an  *)
(* instant just before the start.  A difference of two ephem Dates (days)  *)
(* times 86400.0 is the same count of ticks read as seconds: floating      *)
(* point rounding is not modelled.                                         *)
(***************************************************************************)
EXTENDS Integers, Sequences, FiniteSets, TLC

\* ------------------------------------------------------------ bounds
TicksPerSec == 2    \* resolution of the clock
MaxLen      == 8    \* length of the longest root slot, in ticks
NegLen      == 1    \* slot_len_sec is drawn from -NegLen .. MaxLen + 1 ticks
MaxSplits   == 2    \* successive splits followed in one behaviour
Day         == 12   \* period of the sky, in ticks
MaxWindow   == 5    \* longest window [time_start, time_stop], in ticks
MaxNeeded   == 6    \* largest time_needed, in ticks
AltBelow    == 5    \* lowest altitude calc_airmass is tried with: -AltBelow degrees
Resolution  == 3    \* ticks per second of the datetimes of the coarse search
MantBits    == 20   \* significant bits of a float
FracBits    == 16   \* a float is a multiple of 2^-FracBits seconds
MaxIter     == 7    \* iterations of the loop of observable2 followed
StepSec     == 150  \* seconds per step of the wave of a slow target
MaxSteps    == 8    \* longest window of observable2, in steps of a slow target

\* ------------------------------------------------------------ program constants
SnapTolSec == 5     \* math.fabs(diff) < 5.0
MinFragSec == 1     \* diff > 1.0
T0         == 0     \* start_time of the root slot (any instant: split is translation invariant)

None == [none |-> TRUE]
NoData == "None"                \* the default of Slot.__init__'s data
Payloads == {"ob1", "ob2"}

VARIABLES
    self,       \* the Slot that split is called on: [id, start_time, stop_time, data]
    root,       \* the first slot of the behaviour, as constructed
    nextId,     \* identity of the next object Slot.__init__ creates
    nsplit,     \* number of split calls so far
    call,       \* the last call of split: None or [obj, start_time, slot_len_sec, nid]
    ret,        \* its outcome: None or [exc, self, slot_b, slot_c, slot_d]
    target,     \* the StaticTarget: [culm, peak, slope, res]
    observer,   \* the Observer: [horizon, site |-> [date, horizon]]
    ocall,      \* the last call of Observer.observable: None or its arguments
    oret,       \* its outcome: None or [exc, can_obs, time_rise, ...]
    am,         \* the last calls of StaticTarget.calc_airmass: None or [alt, airmass, ...]
    coarse,     \* the activation of Observer.observable2: None or its locals
    queries,    \* the position queries in progress on shared Observers
    pool        \* the set of slots a scheduler holds

slotvars == <<self, root, nextId, nsplit, call, ret>>
obsvars == <<target, observer, ocall, oret>>
auxvars == <<am, coarse, queries, pool>>
vars == <<self, root, nextId, nsplit, call, ret, target, observer, ocall, oret,
          am, coarse, queries, pool>>

\* ------------------------------------------------------------ Slot
\* timedelta.total_seconds() compared with a literal number of seconds:
\* a count of ticks against that many seconds
Seconds(n) == n * TicksPerSec

fabs(x) == IF x < 0 THEN -x ELSE x

\* the builtins max and min
Max(a, b) == IF a >= b THEN a ELSE b
Min(a, b) == IF a <= b THEN a ELSE b

\* Slot.__init__(start_time, slot_len_sec, data): the object created
Slot(id, start_time, slot_len_sec, data) ==
    [id         |-> id,
     start_time |-> start_time,
     stop_time  |-> start_time + slot_len_sec,
     data       |-> data]

\* Slot.size()
size(s) == s.stop_time - s.start_time

\* snap_start with the tolerance test written <= instead of <
snap_start_inclusive(s, start_time) ==
    IF start_time < s.start_time
    THEN LET diff == start_time - s.start_time
         IN  IF fabs(diff) <= Seconds(SnapTolSec)
             THEN [exc |-> "none", start_time |-> s.start_time]
             ELSE [exc |-> "SlotError", start_time |-> start_time]
    ELSE [exc |-> "none", start_time |-> start_time]

\* split, lines 73-79: the start_time the rest of split works with, or the
\* exception
snap_start(s, start_time) ==
    IF start_time < s.start_time
    THEN LET diff == start_time - s.start_time
         IN  IF fabs(diff) < Seconds(SnapTolSec)
             THEN [exc |-> "none", start_time |-> s.start_time]
             ELSE [exc |-> "SlotError", start_time |-> start_time]
    ELSE [exc |-> "none", start_time |-> start_time]

\* stop_exceeds written >= instead of >
stop_exceeds_inclusive(s, stop_time) == stop_time >= s.stop_time

\* split, lines 81-84: does the displaced interval end after the slot
stop_exceeds(s, stop_time) == stop_time > s.stop_time

\* keep_fragment written >= instead of >
keep_fragment_inclusive(diff) == diff >= Seconds(MinFragSec)

\* keep_fragment with the threshold its comment names ("less than a minute")
keep_fragment_minute(diff) == diff > Seconds(60)

\* split, lines 90 and 101: is a residual of diff ticks worth a slot
keep_fragment(diff) == diff > Seconds(MinFragSec)

\* split with line 76 assigning the attribute instead of the local name
self_after_split_assign(s, start_time, slot_len_sec) ==
    IF start_time < s.start_time /\ fabs(start_time - s.start_time) < Seconds(SnapTolSec)
    THEN [s EXCEPT !.start_time = start_time]
    ELSE s

\* split leaves the object it is called on as it was: it assigns no attribute
\* of self (line 76 rebinds the local name start_time only)
self_after_split(s, start_time, slot_len_sec) == s

\* split, line 92: the before slot
define_before(s, diff_sec, nid) == Slot(nid, s.start_time, diff_sec, s.data)

\* split, line 95: the new displacing slot
define_displacing(s, start_time, slot_len_sec, nid) ==
    Slot(nid, start_time, slot_len_sec, s.data)

\* the after slot built without data=self.data (data defaults to None)
define_after_nodata(s, stop_time, diff_sec, nid) == Slot(nid, stop_time, diff_sec, NoData)

\* split, line 103: the after slot
define_after(s, stop_time, diff_sec, nid) == Slot(nid, stop_time, diff_sec, s.data)

\* Slot.split(start_time, slot_len_sec), called on s, the next free object
\* identity being nid
split(s, start_time0, slot_len_sec, nid) ==
    LET sn == snap_start(s, start_time0)
        after == self_after_split(s, start_time0, slot_len_sec)
        raised == [exc |-> "SlotError", self |-> after,
                   slot_b |-> None, slot_c |-> None, slot_d |-> None]
    IN  IF sn.exc # "none" THEN raised
        ELSE
        LET start_time == sn.start_time
            stop_time  == start_time + slot_len_sec
        IN  IF stop_exceeds(s, stop_time) THEN raised
            ELSE
            LET diff_b == start_time - s.start_time
                has_b  == keep_fragment(diff_b)
                slot_b == IF has_b THEN define_before(s, diff_b, nid) ELSE None
                nid_c  == IF has_b THEN nid + 1 ELSE nid
                slot_c == define_displacing(s, start_time, slot_len_sec, nid_c)
                diff_d == s.stop_time - stop_time
                has_d  == keep_fragment(diff_d)
                slot_d == IF has_d THEN define_after(s, stop_time, diff_d, nid_c + 1)
                          ELSE None
            IN  [exc |-> "none", self |-> after,
                 slot_b |-> slot_b, slot_c |-> slot_c, slot_d |-> slot_d]

\* the slots among a result's three positions
Fragments(r) == {r.slot_b, r.slot_c, r.slot_d} \ {None}

\* ------------------------------------------------------------ behaviours
\* the arguments split is tried with, around the slot it is called on
SplitStarts(s) == (s.start_time - Seconds(SnapTolSec) - 1) .. (s.stop_time + 1)
SplitLens == (0 - NegLen) .. (MaxLen + 1)

Init ==
    /\ \E len \in 1 .. MaxLen, d \in Payloads :
          /\ self = Slot(1, T0, len, d)
          /\ root = self
    /\ nextId = 2
    /\ nsplit = 0
    /\ call = None
    /\ ret = None
    /\ target = None
    /\ observer = None
    /\ ocall = None
    /\ oret = None
    /\ am = None
    /\ coarse = None
    /\ queries = None
    /\ pool = {}

\* a call self.split(start_time, slot_len_sec)
Split ==
    /\ call = None
    /\ nsplit < MaxSplits
    /\ \E start_time \in SplitStarts(self), slot_len_sec \in SplitLens :
          LET r == split(self, start_time, slot_len_sec, nextId)
          IN  /\ call' = [obj |-> self, start_time |-> start_time,
                          slot_len_sec |-> slot_len_sec, nid |-> nextId]
              /\ ret' = r
              /\ self' = r.self
              /\ nextId' = nextId + Cardinality(Fragments(r))
    /\ nsplit' = nsplit + 1
    /\ UNCHANGED <<root, obsvars, auxvars>>

\* the caller goes on with one of the slots the last split returned
Adopt ==
    /\ ret # None
    /\ ret.exc = "none"
    /\ nsplit < MaxSplits
    /\ \E f \in Fragments(ret) : self' = f
    /\ call' = None
    /\ ret' = None
    /\ UNCHANGED <<root, nextId, nsplit, obsvars, auxvars>>

\* the caller keeps the slot it called split on (after a SlotError, or to try
\* other arguments)
Keep ==
    /\ call # None
    /\ nsplit < MaxSplits
    /\ call' = None
    /\ ret' = None
    /\ UNCHANGED <<self, root, nextId, nsplit, obsvars, auxvars>>

NextSlot == Split \/ Adopt \/ Keep

SpecSlot == Init /\ [][NextSlot]_vars

\* ------------------------------------------------------------ datetimes
\* A timezone-aware datetime is [t, tz]: the instant t (ticks, UTC) and the
\* zone its fields are written in.
TimeZones == {"UTC", "HST"}

\* tzinfo.utcoffset, in ticks: HST is timedelta(hours=-10), UTC is zero
utcoffset(tz) == IF tz = "HST" THEN 0 - ((10 * Day) \div 24) ELSE 0

\* datetime.astimezone(tz): the same instant, written in tz
astimezone(dt, tz) == [t |-> dt.t, tz |-> tz]

\* ephem.Date(datetime): pyephem reads the fields of the datetime as UTC and
\* ignores its tzinfo
ephem_Date(dt) == dt.t + utcoffset(dt.tz)

\* self.tz_utc.localize(date.datetime()): the ephem Date as a UTC datetime
localize_utc(date) == [t |-> date, tz |-> "UTC"]

\* ------------------------------------------------------------ sky (pyephem)
Targets ==
    { [culm |-> 3, peak |-> 80, slope |-> 15, res |-> 1],  \* rises and sets
      [culm |-> 3, peak |-> 80, slope |-> 5, res |-> 1],   \* never below 50 degrees
      [culm |-> 8, peak |-> 35, slope |-> 15, res |-> 1],  \* low: at most 35 degrees
      [culm |-> 8, peak |-> 10, slope |-> 5, res |-> 1] }  \* never above 10 degrees

CircDist(t, c) ==
    LET d == (t - c) % Day
    IN  IF d <= Day - d THEN d ELSE Day - d

\* body.compute(site); body.alt, in degrees, at the ephem Date date
body_alt_deg(tgt, date) == tgt.peak - tgt.slope * CircDist(date \div tgt.res, tgt.culm)

NeverUp(tgt, horizon) == \A u \in 0 .. (Day - 1) : body_alt_deg(tgt, u) < horizon
AlwaysUp(tgt, horizon) == \A u \in 0 .. (Day - 1) : body_alt_deg(tgt, u) >= horizon

Rises(tgt, horizon, u) ==
    body_alt_deg(tgt, u) >= horizon /\ body_alt_deg(tgt, u - 1) < horizon
Sets(tgt, horizon, u) ==
    body_alt_deg(tgt, u) < horizon /\ body_alt_deg(tgt, u - 1) >= horizon

\* ephem.Observer.next_rising(body, start=start): the first instant after
\* start at which the body comes up to the site's horizon
next_rising(site, tgt, start) ==
    IF NeverUp(tgt, site.horizon) THEN [exc |-> "NeverUpError", date |-> None]
    ELSE IF AlwaysUp(tgt, site.horizon) THEN [exc |-> "AlwaysUpError", date |-> None]
    ELSE [exc |-> "none",
          date |-> CHOOSE u \in (start + 1) .. (start + Day) :
                      /\ Rises(tgt, site.horizon, u)
                      /\ \A w \in (start + 1) .. (u - 1) : ~Rises(tgt, site.horizon, w)]

\* next_rising as observable meets it: early, the search of a rising within a
\* tick of start converges on an instant just before start
rising_search(site, tgt, start, early) ==
    LET r == next_rising(site, tgt, start)
    IN  IF early /\ r.exc = "none" /\ r.date = start + 1
        THEN [exc |-> "none", date |-> start - 1]
        ELSE r

\* ephem.Observer.next_setting(body, start=start): the first instant after
\* start at which the body goes below the site's horizon
next_setting(site, tgt, start) ==
    IF NeverUp(tgt, site.horizon) THEN [exc |-> "NeverUpError", date |-> None]
    ELSE IF AlwaysUp(tgt, site.horizon) THEN [exc |-> "AlwaysUpError", date |-> None]
    ELSE [exc |-> "none",
          date |-> CHOOSE u \in (start + 1) .. (start + Day) :
                      /\ Sets(tgt, site.horizon, u)
                      /\ \A w \in (start + 1) .. (u - 1) : ~Sets(tgt, site.horizon, w)]

\* ------------------------------------------------------------ airmass
\* Altitudes are whole degrees.  The floating point numbers of calc_airmass
\* are fixed point: 1/sin(alt) in thousandths, the coefficients in units of
\* 10^-7, the airmass in units of 10^-4; every intermediate product fits 32
\* bits.

\* ephem.degrees('03:00:00')
AirmassFloorDeg == 3

\* 1.0/numpy.sin(alt), in thousandths, for alt = 1 .. 90 degrees
inv_sin ==
    << 57299, 28654, 19107, 14336, 11474, 9567, 8206, 7185, 6392, 5759,
       5241, 4810, 4445, 4134, 3864, 3628, 3420, 3236, 3072, 2924,
       2790, 2669, 2559, 2459, 2366, 2281, 2203, 2130, 2063, 2000,
       1942, 1887, 1836, 1788, 1743, 1701, 1662, 1624, 1589, 1556,
       1524, 1494, 1466, 1440, 1414, 1390, 1367, 1346, 1325, 1305,
       1287, 1269, 1252, 1236, 1221, 1206, 1192, 1179, 1167, 1155,
       1143, 1133, 1122, 1113, 1103, 1095, 1086, 1079, 1071, 1064,
       1058, 1051, 1046, 1040, 1035, 1031, 1026, 1022, 1019, 1015,
       1012, 1010, 1008, 1006, 1004, 1002, 1001, 1001, 1000, 1000 >>

\* calc_airmass, lines 197-198, with the floor at one degree
clamp_alt_low(alt) == IF alt < 1 THEN 1 ELSE alt

\* calc_airmass, lines 197-198: an altitude below 3 degrees counts as 3 degrees
clamp_alt(alt) == IF alt < AirmassFloorDeg THEN AirmassFloorDeg ELSE alt

\* StaticTarget.calc_airmass(alt), in units of 10^-4:
\* sz = 1.0/sin(alt) - 1.0
\* xp = 1.0 + sz*(0.9981833 - sz*(0.002875 + 0.0008083*sz))
calc_airmass(alt) ==
    LET sz == inv_sin[clamp_alt(alt)] - 1000                \* 10^-3
        c3 == 28750 + (8083 * sz) \div 1000                 \* 10^-7
        c2 == 9981833 - (sz * (c3 \div 100)) \div 10         \* 10^-7
    IN  10000 + (sz * (c2 \div 1000)) \div 1000

\* ------------------------------------------------------------ Observer
\* the airmass ceilings, in tenths, that calls are tried with
Airmasses == {10, 20, 30}

\* An optional number is a sequence: << >> is Python's None, <<x>> is x.
Nothing == << >>
Some(x) == <<x>>
ValueOf(opt) == opt[1]

\* misc.airmass2alt(airmass): the altitude, in degrees, at which the airmass
\* is reached (sec z = airmass); lower airmass, higher altitude
airmass2alt(airmass) ==
    CASE airmass = 10 -> 90
      [] airmass = 20 -> 30
      [] airmass = 30 -> 19

\* Observer.__init__: horizon is -sqrt(2 * elevation / earth_radius), here the
\* two degrees of a summit at 4 km, and site = get_site(date)
HorizonDeg == 0 - 2

\* Observer.get_site(date, horizon_deg): a new ephem.Observer
get_site(obs, date, horizon_deg) ==
    [date    |-> ephem_Date(date),
     horizon |-> IF horizon_deg # Nothing THEN ValueOf(horizon_deg) ELSE obs.horizon]

\* Observer.set_date(date): the Observer afterwards
set_date(obs, date) ==
    [obs EXCEPT !.site.date = ephem_Date(astimezone(date, "UTC"))]

\* StaticTarget.calc(observer, time_start): the Observer afterwards and, of the
\* result, alt_deg and airmass
calc(obs, tgt, time_start) ==
    LET after == set_date(obs, time_start)
        alt   == body_alt_deg(tgt, after.site.date)
    IN  [observer |-> after, alt_deg |-> alt, airmass |-> calc_airmass(alt)]

\* observable, lines 376-379: min_alt_deg, or the exception of reading the
\* local name alt_deg that line 378 did not bind
min_alt_deg_of(airmass, el_min_deg) ==
    IF airmass # Nothing
    THEN [exc |-> "none", val |-> Max(airmass2alt(ValueOf(airmass)), el_min_deg)]
    ELSE [exc |-> "UnboundLocalError", val |-> None]

\* line 440 as the line before it, commented out, has it: diff > -0.001
can_observe_tolerant(duration, time_needed) == duration - time_needed > 0 - 1

\* observable, line 440
can_observe(duration, time_needed) == duration > time_needed

\* what observable hands back when an exception leaves it (floor: the optional
\* min_alt_deg reached)
Propagated(exc, obs, floor) ==
    [exc |-> exc, can_obs |-> FALSE, time_rise |-> None, observer |-> obs,
     min_alt_deg |-> floor, rise |-> None, set |-> None, warned |-> FALSE]

\* lines 422-428 left out: the rise instant is used as the search gave it
clamp_rise_none(time_rise, time_start_utc) == time_rise

\* observable, lines 422-428: a rise instant before the start of the window
\* is replaced by the start of the window
clamp_rise(time_rise, time_start_utc) ==
    IF time_rise < time_start_utc THEN time_start_utc ELSE time_rise

\* line 432 without the end of the window
time_end_of_set(time_set, time_stop_utc) == time_set

\* observable, line 432: the last observable time
time_end_of(time_set, time_stop_utc) == Min(time_set, time_stop_utc)

\* observable, lines 422-447: from the rise and set instants to the result
decide(obs, floor, time_rise0, time_set, time_start_utc, time_stop_utc, time_needed) ==
    LET warned    == time_rise0 < time_start_utc
        time_rise == clamp_rise(time_rise0, time_start_utc)
        time_end  == time_end_of(time_set, time_stop_utc)
        duration  == time_end - time_rise
    IN  [exc |-> "none", can_obs |-> can_observe(duration, time_needed),
         time_rise |-> localize_utc(time_rise), observer |-> obs,
         min_alt_deg |-> Some(floor), rise |-> time_rise, set |-> time_set,
         warned |-> warned]

\* line 381 written self.site = self.get_site(...): the site of the search
\* becomes the site of the Observer
search_site_on_self(obs, time_start, min_alt_deg) ==
    LET site == get_site(obs, time_start, Some(min_alt_deg))
    IN  [observer |-> [obs EXCEPT !.site = site], site |-> site]

\* observable, line 381: site = self.get_site(date=time_start,
\* horizon_deg=min_alt_deg); the Observer afterwards and the local site
search_site(obs, time_start, min_alt_deg) ==
    [observer |-> obs, site |-> get_site(obs, time_start, Some(min_alt_deg))]

\* observable, lines 381-447, min_alt_deg being known; early: the artefact of
\* the rising search happens in this call
observable_above(obs, tgt, time_start, time_stop, min_alt_deg, time_needed, early) ==
    LET found == search_site(obs, time_start, min_alt_deg)
        site == found.site
        d1   == calc(found.observer, tgt, time_start)
        time_start_utc == ephem_Date(astimezone(time_start, "UTC"))
        time_stop_utc  == ephem_Date(astimezone(time_stop, "UTC"))
    IN  IF d1.alt_deg >= min_alt_deg
        THEN LET s == next_setting(site, tgt, time_start_utc)
             IN  IF s.exc # "none" THEN Propagated(s.exc, d1.observer, Some(min_alt_deg))
                 ELSE decide(d1.observer, min_alt_deg, time_start_utc, s.date,
                             time_start_utc, time_stop_utc, time_needed)
        ELSE LET r == rising_search(site, tgt, time_start_utc, early)
                 s == next_setting(site, tgt, time_start_utc)
             IN  IF r.exc = "NeverUpError" \/ (r.exc = "none" /\ s.exc = "NeverUpError")
                 THEN [exc |-> "none", can_obs |-> FALSE, time_rise |-> None,
                       observer |-> d1.observer, min_alt_deg |-> Some(min_alt_deg),
                       rise |-> None, set |-> None, warned |-> FALSE]
                 ELSE IF r.exc # "none" THEN Propagated(r.exc, d1.observer, Some(min_alt_deg))
                 ELSE IF s.exc # "none" THEN Propagated(s.exc, d1.observer, Some(min_alt_deg))
                 ELSE decide(d1.observer, min_alt_deg, r.date, s.date,
                             time_start_utc, time_stop_utc, time_needed)

\* observable with the TODO of line 389 carried out: a target above el_max_deg
\* at the start of the window is not observable
observable_el_max(obs, tgt, time_start, time_stop, el_min_deg, el_max_deg, time_needed, airmass, early) ==
    LET m == min_alt_deg_of(airmass, el_min_deg)
    IN  IF m.exc # "none" THEN Propagated(m.exc, obs, Nothing)
        ELSE IF calc(obs, tgt, time_start).alt_deg > el_max_deg
        THEN [exc |-> "none", can_obs |-> FALSE, time_rise |-> None,
              observer |-> calc(obs, tgt, time_start).observer,
              min_alt_deg |-> Some(m.val), rise |-> None, set |-> None,
              warned |-> FALSE]
        ELSE observable_above(obs, tgt, time_start, time_stop, m.val, time_needed, early)

\* Observer.observable(target, time_start, time_stop, el_min_deg, el_max_deg,
\* time_needed, airmass)
observable(obs, tgt, time_start, time_stop, el_min_deg, el_max_deg, time_needed, airmass, early) ==
    LET m == min_alt_deg_of(airmass, el_min_deg)
    IN  IF m.exc # "none" THEN Propagated(m.exc, obs, Nothing)
        ELSE observable_above(obs, tgt, time_start, time_stop, m.val, time_needed, early)

\* can the rising search of a call show its artefact: the target comes up to
\* the floor of the call within a tick of time_start
CanBeEarly(tgt, t0, el_min_deg, airmass) ==
    /\ airmass # Nothing
    /\ LET floor == Max(airmass2alt(ValueOf(airmass)), el_min_deg)
       IN  body_alt_deg(tgt, t0) < floor /\ body_alt_deg(tgt, t0 + 1) >= floor

\* ------------------------------------------------------------ floats
\* Python's float is binary floating point.  A float is held here as a whole
\* number of quanta of 2^-FracBits seconds, and every result of a float
\* operation is rounded, ties to even, to MantBits significant bits: the
\* format of the code with fewer bits.  A datetime of the coarse search
\* counts Resolution ticks to the second (Python: 10^6), a number that, like
\* Python's, is no power of two.
Quanta(seconds) == seconds * 2^FracBits

\* the nearest whole number to a / b, ties to even (a >= 0, b > 0)
RoundDiv(a, b) ==
    LET q == a \div b
        r == a % b
    IN  IF 2 * r > b \/ (2 * r = b /\ q % 2 = 1) THEN q + 1 ELSE q

\* the spacing, in quanta, of the floats around n quanta
RECURSIVE Ulp(_, _)
Ulp(n, u) == IF n >= u * 2^MantBits THEN Ulp(n, 2 * u) ELSE u

\* float addition: the exact sum, rounded
float_add(x, y) ==
    LET u == Ulp(x + y, 1)
    IN  RoundDiv(x + y, u) * u

\* timedelta.total_seconds(): the ticks of the timedelta divided by the ticks
\* of a second, rounded
total_seconds(ticks) ==
    LET u == Ulp(Quanta(ticks) \div Resolution, 1)
    IN  RoundDiv(Quanta(ticks), Resolution * u) * u

\* timedelta(0, seconds) of a float: the nearest whole number of ticks
timedelta(seconds) == RoundDiv(seconds * Resolution, 2^FracBits)

\* ------------------------------------------------------------ Observer.observable2
\* Observer._observable(target, time_start, time_stop, el_min_deg, el_max_deg,
\* airmass): the Observer afterwards and the result
_observable(obs, tgt, time_start, time_stop, el_min_deg, el_max_deg, airmass) ==
    LET c1 == calc(obs, tgt, time_start)
        c2 == calc(c1.observer, tgt, time_stop)
    IN  [observer |-> c2.observer,
         res |-> /\ el_min_deg <= c1.alt_deg /\ c1.alt_deg <= el_max_deg
                 /\ el_min_deg <= c2.alt_deg /\ c2.alt_deg <= el_max_deg
                 /\ \/ airmass = Nothing
                    \/ /\ c1.airmass <= ValueOf(airmass) * 1000
                       /\ c2.airmass <= ValueOf(airmass) * 1000]

\* observable2, line 332
time_inc == 300

\* observable2, lines 327-335: the locals at the head of the loop, or the
\* result of the early return
observable2_begin(time_start, time_stop, el_min_deg, el_max_deg, time_needed, airmass) ==
    LET delta == total_seconds(time_stop.t - time_start.t)
        args  == [time_start |-> time_start, time_stop |-> time_stop,
                  el_min_deg |-> el_min_deg, el_max_deg |-> el_max_deg,
                  time_needed |-> time_needed, airmass |-> airmass,
                  delta |-> delta, time_off |-> 0, total_visible |-> 0,
                  pos |-> None, steps |-> << >>]
    IN  IF Quanta(time_needed) > delta
        THEN args @@ [pc |-> "returned", can_obs |-> FALSE]
        ELSE args @@ [pc |-> "while", can_obs |-> FALSE]

\* observable2, lines 339-351: one iteration of the loop; the locals and the
\* Observer afterwards
observable2_step(c, obs, tgt) ==
    LET time_s    == [c.time_start EXCEPT !.t = @ + timedelta(c.time_off)]
        time_left == total_seconds(c.time_stop.t - time_s.t)
        incr      == Min(Quanta(time_inc), time_left)
        time_e    == [time_s EXCEPT !.t = @ + timedelta(incr)]
        o         == _observable(obs, tgt, time_s, time_e, c.el_min_deg,
                                 c.el_max_deg, c.airmass)
    IN  [observer |-> o.observer,
         locals |-> [c EXCEPT
            !.total_visible = IF o.res THEN float_add(@, incr) ELSE @,
            !.pos = IF o.res /\ @ = None THEN time_s ELSE @,
            !.time_off = float_add(@, incr),
            !.steps = Append(@, [time_s |-> time_s.t, time_e |-> time_e.t,
                                 res |-> o.res])]]

\* observable2, line 339: the test of the loop
observable2_while(c) == c.time_off < c.delta

\* line 357 written <= instead of <
pos_fits_inclusive(pos, time_needed, time_stop) ==
    pos.t + timedelta(Quanta(time_needed)) <= time_stop.t

\* observable2, line 357: pos + timedelta(0, time_needed) < time_stop
pos_fits(pos, time_needed, time_stop) ==
    pos.t + timedelta(Quanta(time_needed)) < time_stop.t

\* observable2, lines 353-359: the result after the loop
observable2_end(c) ==
    IF c.pos = None THEN [c EXCEPT !.pc = "returned", !.can_obs = FALSE]
    ELSE IF Quanta(c.time_needed) > c.total_visible
    THEN [c EXCEPT !.pc = "returned", !.can_obs = FALSE]
    ELSE IF pos_fits(c.pos, c.time_needed, c.time_stop)
    THEN [c EXCEPT !.pc = "returned", !.can_obs = TRUE]
    ELSE [c EXCEPT !.pc = "returned", !.can_obs = FALSE]

\* observable2 run to its return, for a call that reaches it within MaxIter
\* iterations: the locals and the Observer afterwards
RECURSIVE observable2_run(_, _, _)
observable2_run(c, obs, tgt) ==
    IF c.pc = "returned" THEN [observer |-> obs, locals |-> c]
    ELSE IF observable2_while(c) /\ Len(c.steps) < MaxIter
    THEN LET n == observable2_step(c, obs, tgt)
         IN  observable2_run(n.locals, n.observer, tgt)
    ELSE [observer |-> obs, locals |-> observable2_end(c)]

\* ------------------------------------------------------------ behaviours of the Observer
ElMins == {15, 30}
ElMaxs == {70, 89}
Instants == 0 .. (Day - 1)

InitObs ==
    /\ self = Slot(1, T0, MaxLen, NoData)
    /\ root = self
    /\ nextId = 2
    /\ nsplit = 0
    /\ call = None
    /\ ret = None
    /\ target \in Targets
    /\ observer = [horizon |-> HorizonDeg,
                   site |-> get_site([horizon |-> HorizonDeg],
                                     [t |-> T0, tz |-> "UTC"], Nothing)]
    /\ ocall = None
    /\ oret = None
    /\ am = None
    /\ coarse = None
    /\ queries = None
    /\ pool = {}

\* a call observer.observable(target, time_start, time_stop, el_min_deg,
\* el_max_deg, time_needed, airmass)
Observable ==
    /\ ocall = None
    /\ \E t0 \in Instants, tz \in TimeZones, len \in 1 .. MaxWindow,
          el_min_deg \in ElMins, el_max_deg \in ElMaxs,
          time_needed \in 0 .. MaxNeeded,
          airmass \in {Nothing} \cup {Some(a) : a \in Airmasses},
          early \in BOOLEAN :
          LET time_start == [t |-> t0, tz |-> tz]
              time_stop  == [t |-> t0 + len, tz |-> tz]
              r == observable(observer, target, time_start, time_stop,
                              el_min_deg, el_max_deg, time_needed, airmass, early)
          IN  /\ early => CanBeEarly(target, t0, el_min_deg, airmass)
              /\ ocall' = [time_start |-> time_start,
                           time_stop |-> time_stop, el_min_deg |-> el_min_deg,
                           el_max_deg |-> el_max_deg, time_needed |-> time_needed,
                           airmass |-> airmass, early |-> early]
              /\ oret' = r
              /\ observer' = r.observer
    /\ UNCHANGED <<target, slotvars, auxvars>>

\* the caller takes the result
ObsDone ==
    /\ ocall # None
    /\ ocall' = None
    /\ oret' = None
    /\ UNCHANGED <<target, observer, slotvars, auxvars>>

\* Observer.calc(target, time_start) is called between two calls of observable
Calc ==
    /\ ocall = None
    /\ \E t0 \in Instants, tz \in TimeZones :
          observer' = calc(observer, target, [t |-> t0, tz |-> tz]).observer
    /\ UNCHANGED <<target, ocall, oret, slotvars, auxvars>>

\* Observer.observable2 is called between two calls of observable and runs to
\* its return
Observable2 ==
    /\ ocall = None
    /\ \E t0 \in Instants, t1 \in Instants, tz \in TimeZones,
          el_min_deg \in ElMins, el_max_deg \in ElMaxs,
          time_needed \in 0 .. MaxNeeded,
          airmass \in {Nothing} \cup {Some(a) : a \in Airmasses} :
          /\ t0 < t1
          /\ t1 <= t0 + MaxWindow
          /\ observer' = observable2_run(
                              observable2_begin([t |-> t0, tz |-> tz],
                                                [t |-> t1, tz |-> tz],
                                                el_min_deg, el_max_deg, time_needed,
                                                airmass),
                              observer, target).observer
    /\ UNCHANGED <<target, ocall, oret, slotvars, auxvars>>

NextObs == Observable \/ ObsDone \/ Calc \/ Observable2

SpecObs == InitObs /\ [][NextObs]_vars

\* ------------------------------------------------------------ claims on Slot
\* the last call of split, seen from the state after it
Called   == call # None
Returned == Called /\ ret.exc = "none"
Raised   == Called /\ ret.exc = "SlotError"
Within(s, t) == s.start_time <= t /\ t < s.stop_time
Covering(r, t) == {f \in Fragments(r) : Within(f, t)}
Ticks(s) == s.start_time .. (s.stop_time - 1)
SizeOf(x) == IF x = None THEN 0 ELSE size(x)
SumSizes(r) == SizeOf(r.slot_b) + SizeOf(r.slot_c) + SizeOf(r.slot_d)
\* a call whose requested interval [at, at+len) lies inside the slot
Fits == /\ Returned
        /\ call.slot_len_sec >= 0
        /\ call.obj.start_time <= call.start_time
        /\ call.start_time + call.slot_len_sec <= call.obj.stop_time
ResidualBefore == call.start_time - call.obj.start_time
ResidualAfter  == call.obj.stop_time - (call.start_time + call.slot_len_sec)

C2_SnapTolerance ==
    (Called /\ call.start_time < call.obj.start_time) =>
      LET s    == call.obj
          late == s.start_time - call.start_time
      IN  IF late < Seconds(5)
          THEN /\ ret = split(s, s.start_time, call.slot_len_sec, call.nid)
               /\ ret.exc = "none" <=> s.start_time + call.slot_len_sec <= s.stop_time
               /\ ret.exc = "none" =>
                     /\ ret.slot_b = None
                     /\ ret.slot_c.start_time = s.start_time
                     /\ ret.slot_c.stop_time = s.start_time + call.slot_len_sec
          ELSE ret.exc = "SlotError"

\* at is half a tick short of 5 seconds early, and the split is carried out
C2_Witness ==
    /\ Returned
    /\ call.obj.start_time - call.start_time = Seconds(5) - 1
    /\ call.slot_len_sec > 0
    /\ ret.slot_d # None

\* C3: split raises SlotError whenever the displaced interval's stop, the
\* snapped at plus len, is later than the slot's stop, and does not raise for
\* that reason when it is equal or earlier.
C3_StopBound ==
    (Called /\ call.obj.start_time - call.start_time < Seconds(5)) =>
      LET at == Max(call.start_time, call.obj.start_time)
      IN  ret.exc = "SlotError" <=> at + call.slot_len_sec > call.obj.stop_time

\* the displaced interval ends one tick after the slot: SlotError
C3_Witness ==
    /\ Raised
    /\ call.start_time > call.obj.start_time
    /\ call.start_time + call.slot_len_sec = call.obj.stop_time + 1

C5_StopAfterStart ==
    /\ self.stop_time > self.start_time
    /\ root.stop_time > root.start_time
    /\ Returned => \A f \in Fragments(ret) : f.stop_time > f.start_time

\* C6: split changes neither start_time, stop_time nor data of the slot it is
\* called on, whether it returns or raises, and the slots it returns are new
\* objects.
C6_SelfUnchanged ==
    Called =>
      /\ ret.self = call.obj
      /\ self = call.obj
      /\ \A f \in Fragments(ret) : f.id >= call.nid /\ f.id # call.obj.id
      /\ \A f, g \in Fragments(ret) : f.id = g.id => f = g
      /\ call.obj.id < call.nid

\* the second split in a row snapped its start_time and returned two slots
C6_Witness ==
    /\ Returned
    /\ call.start_time < call.obj.start_time
    /\ Cardinality(Fragments(ret)) = 2
    /\ nsplit = 2

\* C7: every slot split returns carries the data of the slot that was split,
\* after any number of successive splits.
C7_DataPropagated ==
    /\ self.data = root.data
    /\ Called => call.obj.data = root.data
    /\ Returned => \A f \in Fragments(ret) : f.data = root.data

\* the second split in a row, returning three slots
C7_Witness ==
    /\ Returned
    /\ nsplit = 2
    /\ call.obj.id # root.id
    /\ Cardinality(Fragments(ret)) = 3

\* ------------------------------------------------------------ claims on Observer.observable
OCalled   == ocall # None
OReturned == OCalled /\ oret.exc = "none"
\* the altitude floor the call asks for: el_min_deg, raised to the altitude
\* of the airmass ceiling when there is one
AskedFloor ==
    IF ocall.airmass = Nothing THEN ocall.el_min_deg
    ELSE Max(airmass2alt(ValueOf(ocall.airmass)), ocall.el_min_deg)
\* the sky itself: the first instant from u on at which the target is at or
\* above floor, and the first instant after r at which it is below
FirstUp(floor, u) ==
    CHOOSE r \in u .. (u + Day) :
        /\ body_alt_deg(target, r) >= floor
        /\ \A w \in u .. (r - 1) : body_alt_deg(target, w) < floor
FirstDown(floor, r) ==
    CHOOSE s \in (r + 1) .. (r + Day) :
        /\ body_alt_deg(target, s) < floor
        /\ \A w \in r .. (s - 1) : body_alt_deg(target, w) >= floor
\* the time the target spends at or above floor from its first appearance in
\* the window [from, to] until it sets or the window ends
Visible(floor, from, to) ==
    LET r == FirstUp(floor, from)
    IN  Min(FirstDown(floor, r), to) - r

\* C8: observable with airmass=None takes el_min_deg as the altitude floor and
\* returns a (bool, start) result without raising; with an airmass ceiling the
\* floor is the larger of the airmass-equivalent altitude and el_min_deg.
C8_FloorWithoutAirmass ==
    OCalled =>
      /\ ocall.airmass = Nothing => oret.exc = "none"
      /\ oret.min_alt_deg = Some(AskedFloor)

C10_NeverUp ==
    (/\ OCalled
     /\ body_alt_deg(target, ocall.time_start.t) < AskedFloor
     /\ NeverUp(target, AskedFloor))
    => /\ oret.exc = "none"
       /\ oret.can_obs = FALSE
       /\ oret.time_rise = None

\* the rise instant the search of a call found: the start of the window when
\* the target is up there, else what next_rising handed back
FoundRise ==
    LET start == ocall.time_start.t
        floor == ValueOf(oret.min_alt_deg)
    IN  IF body_alt_deg(target, start) >= floor THEN start
        ELSE IF ocall.early THEN start - 1
        ELSE FirstUp(floor, start)

\* C11: whenever observable returns a candidate start, it is the rise instant
\* clamped to be no earlier than the window start, whether the outcome is True
\* or False; a rise found before the window start is replaced by the window
\* start with a warning and the call does not fail.
C11_ClampedRise ==
    /\ (OReturned /\ oret.time_rise # None) =>
          /\ oret.time_rise.t = Max(FoundRise, ocall.time_start.t)
          /\ oret.time_rise.t >= ocall.time_start.t
          /\ oret.warned <=> FoundRise < ocall.time_start.t
    /\ (OCalled /\ ocall.early) =>
          /\ oret.exc = "none"
          /\ oret.time_rise # None
          /\ oret.warned

\* the search found the rise before the window start; the window start is
\* returned, with the outcome False
C11_Witness ==
    /\ OReturned
    /\ ocall.early
    /\ oret.warned
    /\ oret.time_rise.t = ocall.time_start.t
    /\ ~oret.can_obs
    /\ ocall.time_needed > 0

\* the call found the target at or above its floor at the start of the window
UpAtStart ==
    /\ OCalled
    /\ oret.min_alt_deg # Nothing
    /\ body_alt_deg(target, ocall.time_start.t) >= ValueOf(oret.min_alt_deg)

WindowSlot ==
    Slot(0, ocall.time_start.t, ocall.time_stop.t - ocall.time_start.t, NoData)
Reserve == split(WindowSlot, oret.time_rise.t, ocall.time_needed, 1)

\* C14: whenever observable returns (True, start) for a window and a duration
\* time_needed, start >= window_start and start + time_needed <= window_stop,
\* and Slot.split(start, time_needed) on a slot equal to the window raises no
\* SlotError and returns [start, start + time_needed) as the displacing slot.
C14_ReservationFits ==
    (OReturned /\ oret.can_obs) =>
        /\ oret.time_rise.t >= ocall.time_start.t
        /\ oret.time_rise.t + ocall.time_needed <= ocall.time_stop.t
        /\ Reserve.exc = "none"
        /\ Reserve.slot_c.start_time = oret.time_rise.t
        /\ Reserve.slot_c.stop_time = oret.time_rise.t + ocall.time_needed

\* (True, start) with the target setting inside the window, after rising
\* inside it: the reservation leaves residuals on both sides
C14_Witness ==
    /\ OReturned
    /\ oret.can_obs
    /\ ocall.time_needed > 0
    /\ oret.time_rise.t > ocall.time_start.t
    /\ oret.set < ocall.time_stop.t
    /\ Reserve.exc = "none"

\* ------------------------------------------------------------ behaviours of calc_airmass
\* the slots and the Observer of a behaviour that does not use them
SlotIdle ==
    /\ self = Slot(1, T0, MaxLen, NoData)
    /\ root = self
    /\ nextId = 2
    /\ nsplit = 0
    /\ call = None
    /\ ret = None
ObsIdle ==
    /\ target = None
    /\ observer = None
    /\ ocall = None
    /\ oret = None

\* the altitudes calc_airmass is tried with, in degrees
Altitudes == (0 - AltBelow) .. 90

InitAirmass ==
    /\ SlotIdle
    /\ ObsIdle
    /\ am = None
    /\ coarse = None
    /\ queries = None
    /\ pool = {}

\* calc_airmass is called for two altitudes
CalcAirmass ==
    /\ am = None
    /\ \E alt1 \in Altitudes, alt2 \in Altitudes :
          am' = [alt1 |-> alt1, airmass1 |-> calc_airmass(alt1),
                 alt2 |-> alt2, airmass2 |-> calc_airmass(alt2)]
    /\ UNCHANGED <<slotvars, obsvars, coarse, queries, pool>>

\* the results are dropped
AirmassDone ==
    /\ am # None
    /\ am' = None
    /\ UNCHANGED <<slotvars, obsvars, coarse, queries, pool>>

NextAirmass == CalcAirmass \/ AirmassDone

SpecAirmass == InitAirmass /\ [][NextAirmass]_vars

\* C19: calc_airmass is non-increasing as the altitude goes up from 3 to 90
\* degrees, and for an altitude below 3 degrees it returns what it returns for
\* exactly 3 degrees.
C19_AirmassMonotone ==
    am # None =>
        /\ (AirmassFloorDeg <= am.alt1 /\ am.alt1 <= am.alt2) => am.airmass1 >= am.airmass2
        /\ (am.alt1 < AirmassFloorDeg /\ am.alt2 = AirmassFloorDeg) => am.airmass1 = am.airmass2
        /\ am.alt1 < AirmassFloorDeg => am.airmass1 >= am.airmass2

\* an altitude below the horizon gets the airmass of 3 degrees, above 13
C19_Witness ==
    /\ am # None
    /\ am.alt1 < 0
    /\ am.alt2 = AirmassFloorDeg
    /\ am.airmass1 = am.airmass2
    /\ am.airmass1 > 130000

\* ------------------------------------------------------------ behaviours of observable2
\* One call of observable2, followed iteration by iteration.  Instants count
\* Resolution ticks to the second; the targets are slow: a step of their wave
\* lasts StepSec seconds.
StepTicks == StepSec * Resolution

SlowTargets ==
    { [culm |-> 4, peak |-> 80, slope |-> 10, res |-> StepTicks],   \* 40 .. 80 .. 20 degrees
      [culm |-> 3, peak |-> 80, slope |-> 15, res |-> StepTicks],   \* 35 .. 80 .. -10 degrees
      [culm |-> 8, peak |-> 35, slope |-> 15, res |-> StepTicks] }  \* low: at most 35 degrees

\* the windows: they start on a step of the wave and last a number of steps
\* and up to two ticks more
CoarseStarts == {j * StepTicks : j \in 0 .. 3}
CoarseLens == {k * StepTicks + j : k \in 0 .. MaxSteps, j \in 0 .. 2} \ {0}
CoarseNeeded == {k * StepSec : k \in 0 .. MaxNeeded}

InitCoarse ==
    /\ SlotIdle
    /\ target \in SlowTargets
    /\ observer = [horizon |-> HorizonDeg,
                   site |-> get_site([horizon |-> HorizonDeg],
                                     [t |-> T0, tz |-> "UTC"], Nothing)]
    /\ ocall = None
    /\ oret = None
    /\ am = None
    /\ coarse = None
    /\ queries = None
    /\ pool = {}

\* observable2 is called: lines 327-335
Observable2Call ==
    /\ coarse = None
    /\ \E t0 \in CoarseStarts, len \in CoarseLens,
          el_min_deg \in ElMins, el_max_deg \in ElMaxs,
          time_needed \in CoarseNeeded,
          airmass \in {Nothing} \cup {Some(a) : a \in Airmasses} :
          coarse' = observable2_begin([t |-> t0, tz |-> "HST"],
                                      [t |-> t0 + len, tz |-> "HST"],
                                      el_min_deg, el_max_deg, time_needed, airmass)
    /\ UNCHANGED <<slotvars, obsvars, am, queries, pool>>

\* one iteration of the loop: lines 339-351
Observable2Step ==
    /\ coarse # None
    /\ coarse.pc = "while"
    /\ observable2_while(coarse)
    /\ Len(coarse.steps) < MaxIter
    /\ LET n == observable2_step(coarse, observer, target)
       IN  /\ coarse' = n.locals
           /\ observer' = n.observer
    /\ UNCHANGED <<slotvars, target, ocall, oret, am, queries, pool>>

\* the loop is left and observable2 returns: lines 353-359
Observable2End ==
    /\ coarse # None
    /\ coarse.pc = "while"
    /\ ~observable2_while(coarse)
    /\ coarse' = observable2_end(coarse)
    /\ UNCHANGED <<slotvars, obsvars, am, queries, pool>>

NextCoarse == Observable2Call \/ Observable2Step \/ Observable2End

SpecCoarse == InitCoarse /\ [][NextCoarse]_vars

\* ------------------------------------------------------------ claims about observable2
\* the window of the call, in ticks, and the ticks of time_inc and time_needed
CoarseStart == coarse.time_start.t
CoarseStop  == coarse.time_stop.t
IncTicks    == time_inc * Resolution
NeededTicks == coarse.time_needed * Resolution
CoarseReturned == coarse # None /\ coarse.pc = "returned"

\* the sky itself: do both ends of [s, e] satisfy the elevation bounds and the
\* airmass ceiling of the call
InBounds(t) ==
    /\ coarse.el_min_deg <= body_alt_deg(target, t)
    /\ body_alt_deg(target, t) <= coarse.el_max_deg
    /\ \/ coarse.airmass = Nothing
       \/ calc_airmass(body_alt_deg(target, t)) <= ValueOf(coarse.airmass) * 1000
StepOK(s, e) == InBounds(s) /\ InBounds(e)

\* the steps of time_inc that tile the window, the last one truncated
CeilDiv(a, b) == (a + b - 1) \div b
TileCount == CeilDiv(CoarseStop - CoarseStart, IncTicks)
TileStart(i) == CoarseStart + (i - 1) * IncTicks
TileEnd(i) == Min(CoarseStart + i * IncTicks, CoarseStop)
AcceptedTiles == {i \in 1 .. TileCount : StepOK(TileStart(i), TileEnd(i))}
RECURSIVE SumTiles(_)
SumTiles(S) ==
    IF S = {} THEN 0
    ELSE LET i == CHOOSE x \in S : TRUE
         IN  (TileEnd(i) - TileStart(i)) + SumTiles(S \ {i})
FirstAccepted == CHOOSE i \in AcceptedTiles : \A j \in AcceptedTiles : i <= j

\* C15: observable2 returns (False, None) when the window is shorter than
\* time_needed or no step is accepted; (False, pos) when the accepted time is
\* less than time_needed; and otherwise (True, pos) whenever pos + time_needed
\* is no later than the window end; pos is the start of the first accepted
\* step, and a step is accepted only if both its ends satisfy the elevation
\* bounds and the airmass ceiling.
C15_CoarseOutcome ==
    CoarseReturned =>
        IF NeededTicks > CoarseStop - CoarseStart \/ AcceptedTiles = {}
        THEN ~coarse.can_obs /\ coarse.pos = None
        ELSE /\ coarse.pos # None
             /\ coarse.pos.t = TileStart(FirstAccepted)
             /\ IF SumTiles(AcceptedTiles) < NeededTicks
                THEN ~coarse.can_obs
                ELSE (coarse.pos.t + NeededTicks <= CoarseStop) => coarse.can_obs

\* C16: the loop of observable2 terminates: it runs at most ceil(delta / 300)
\* iterations, every step is 300 s long except a last one truncated to end
\* at the window end, and the steps tile the window without gap or overlap.
C16_LoopTiles ==
    coarse # None =>
        /\ Len(coarse.steps) <= TileCount
        /\ \A i \in 1 .. Len(coarse.steps) :
              /\ coarse.steps[i].time_s = TileStart(i)
              /\ coarse.steps[i].time_e = TileEnd(i)
        /\ CoarseReturned /\ Quanta(coarse.time_needed) <= coarse.delta
              => Len(coarse.steps) = TileCount

\* C18: the horizon depression of the Observer, self.horizon and the horizon
\* of its persistent self.site, is what the constructor made it, whatever
\* calls of calc, observable and observable2 have been made, observable
\* searching with an altitude floor of its own.
C18_HorizonFixed ==
    observer # None =>
        /\ observer.horizon = HorizonDeg
        /\ observer.site.horizon = HorizonDeg

\* observable has searched with a floor other than the horizon of the
\* Observer, and left its date in the persistent site
C18_Witness ==
    /\ OReturned
    /\ oret.min_alt_deg # Nothing
    /\ ValueOf(oret.min_alt_deg) # HorizonDeg
    /\ oret.time_rise # None
    /\ observer.site.date = ephem_Date(astimezone(ocall.time_start, "UTC"))
    /\ observer.site.date # T0
    /\ observer.site.horizon = HorizonDeg

\* ------------------------------------------------------------ behaviours of a pool of slots
\* A scheduler holds a pool of slots, at first the root slot alone, and
\* replaces a slot of the pool by the slots a successful split of it returns.
InitPool ==
    /\ \E len \in 1 .. MaxLen, d \in Payloads :
          /\ self = Slot(1, T0, len, d)
          /\ root = self
    /\ nextId = 2
    /\ nsplit = 0
    /\ call = None
    /\ ret = None
    /\ ObsIdle
    /\ am = None
    /\ coarse = None
    /\ queries = None
    /\ pool = {root}

\* a slot of the pool is split and the slots returned take its place
PoolSplit ==
    /\ nsplit < MaxSplits
    /\ \E s \in pool : \E start_time \in SplitStarts(s), slot_len_sec \in SplitLens :
          LET r == split(s, start_time, slot_len_sec, nextId)
          IN  /\ r.exc = "none"
              /\ call' = [obj |-> s, start_time |-> start_time,
                          slot_len_sec |-> slot_len_sec, nid |-> nextId]
              /\ ret' = r
              /\ pool' = (pool \ {s}) \cup Fragments(r)
              /\ nextId' = nextId + Cardinality(Fragments(r))
    /\ nsplit' = nsplit + 1
    /\ UNCHANGED <<self, root, obsvars, am, coarse, queries>>

NextPool == PoolSplit

SpecPool == InitPool /\ [][NextPool]_vars

\* two slots share an instant of positive length
Overlap(s1, s2) == s1.start_time < s2.stop_time /\ s2.start_time < s1.stop_time
RECURSIVE TotalSize(_)
TotalSize(S) ==
    IF S = {} THEN 0
    ELSE LET s == CHOOSE x \in S : TRUE
         IN  size(s) + TotalSize(S \ {s})

\* C20: after any sequence of successful splits of pool slots, the slots of
\* the pool are pairwise non-overlapping, each lies within the bounds of the
\* original slot, and the total size of the pool does not exceed the size of
\* the original slot.
C20_PoolWithinRoot ==
    /\ \A s1 \in pool, s2 \in pool : s1 # s2 => ~Overlap(s1, s2)
    /\ \A s \in pool : root.start_time <= s.start_time /\ s.stop_time <= root.stop_time
    /\ TotalSize(pool) <= size(root)

\* ------------------------------------------------------------ behaviours of concurrent position queries
\* Two workers each make one position query, StaticTarget.calc(observer,
\* time_start): observer.set_date(time_start), then body.compute(observer.site),
\* which reads the date of the site.  In mode "serialized" both use the same
\* Observer and a query starts only when no other is between its two steps;
\* in mode "interleaved" both use the same Observer and their steps come in
\* any order; in mode "separate" each worker has an Observer of its own.
Workers == {1, 2}
Modes == {"serialized", "interleaved", "separate"}

\* every worker is handed the same Observer
observer_of_shared(mode, w) == 1

\* the Observer instance a worker's calc is called with
observer_of(mode, w) == IF mode = "separate" THEN w ELSE 1

NewObserver ==
    [horizon |-> HorizonDeg,
     site |-> get_site([horizon |-> HorizonDeg], [t |-> T0, tz |-> "UTC"], Nothing)]

InitQueries ==
    /\ SlotIdle
    /\ target \in Targets
    /\ observer = None
    /\ ocall = None
    /\ oret = None
    /\ am = None
    /\ coarse = None
    /\ pool = {}
    /\ \E mode \in Modes, t1 \in Instants, t2 \in Instants :
          /\ t1 # t2
          /\ queries = [mode |-> mode,
                        obs  |-> [i \in Workers |-> NewObserver],
                        q    |-> [w \in Workers |->
                                    [pc |-> "idle",
                                     time_start |-> [t |-> IF w = 1 THEN t1 ELSE t2,
                                                     tz |-> "HST"],
                                     date |-> Nothing, alt_deg |-> Nothing]]]

\* is some other query on the Observer of w between its two steps
Busy(w) ==
    \E v \in Workers \ {w} :
        /\ observer_of(queries.mode, v) = observer_of(queries.mode, w)
        /\ queries.q[v].pc = "compute"

\* StaticTarget.calc, line 210: observer.set_date(time_start)
QuerySetDate(w) ==
    /\ queries # None
    /\ queries.q[w].pc = "idle"
    /\ queries.mode = "serialized" => ~Busy(w)
    /\ LET i == observer_of(queries.mode, w)
       IN  queries' = [queries EXCEPT
                !.obs[i] = set_date(@, queries.q[w].time_start),
                !.q[w].pc = "compute"]
    /\ UNCHANGED <<slotvars, obsvars, am, coarse, pool>>

\* StaticTarget.calc, lines 211-228: body.compute(observer.site) and the result
QueryCompute(w) ==
    /\ queries # None
    /\ queries.q[w].pc = "compute"
    /\ LET i == observer_of(queries.mode, w)
           date == queries.obs[i].site.date
       IN  queries' = [queries EXCEPT
                !.q[w].pc = "done",
                !.q[w].date = Some(date),
                !.q[w].alt_deg = Some(body_alt_deg(target, date))]
    /\ UNCHANGED <<slotvars, obsvars, am, coarse, pool>>

NextQueries == \E w \in Workers : QuerySetDate(w) \/ QueryCompute(w)

SpecQueries == InitQueries /\ [][NextQueries]_vars

\* the instant a query is about, as an ephem Date
OwnDate(w) == ephem_Date(astimezone(queries.q[w].time_start, "UTC"))
QueryDone(w) == queries # None /\ queries.q[w].pc = "done"

C21_AcceptedContiguous ==
    (CoarseReturned /\ coarse.can_obs) =>
        \A i \in 1 .. Len(coarse.steps) :
            (/\ coarse.steps[i].time_s < coarse.pos.t + NeededTicks
             /\ coarse.pos.t < coarse.steps[i].time_e)
                => coarse.steps[i].res

\* the situation of the target at the window start of a call with an airmass
\* ceiling, the floor being AskedFloor
Situation ==
    IF body_alt_deg(target, ocall.time_start.t) >= AskedFloor
    THEN IF AlwaysUp(target, AskedFloor) THEN "up, never setting" ELSE "up, setting later"
    ELSE IF NeverUp(target, AskedFloor) THEN "below, never rising" ELSE "below, rising later"

\* C22: observable returns a (bool, start) result and lets no exception out
\* in every situation at the window start: below the floor and rising later,
\* below and never rising, at or above the floor and setting later, at or
\* above and never setting.  (Stated for the calls with an airmass ceiling;
\* those without one are the subject of C8.)
C22_NoException ==
    (OCalled /\ ocall.airmass # Nothing) =>
        /\ Situation \in {"up, never setting", "up, setting later",
                          "below, never rising", "below, rising later"}
        /\ oret.exc = "none"
        /\ oret.can_obs \in BOOLEAN
        /\ Situation = "below, never rising" <=> oret.time_rise = None

====
